---- MODULE Spec2Model ----
(***************************************************************************)
(* State-machine model of MininetSmartCampusExperiment                     *)
(* (src/mininet_smart_campus_experiment.py): the per-trial orchestration   *)
(* of setup_topology, run_experiment and teardown_experiment, driven by    *)
(* the run loop of the superclass SmartCampusExperiment.                   *)
(*                                                                         *)
(* The orchestrator is single-threaded; pc is its position in the code.    *)
(* calls records, in program order, every call the orchestrator makes on   *)
(* its collaborators (emulator, processes, control-plane adapter, logger)  *)
(* during the current trial.                                               *)
(***************************************************************************)
EXTENDS Integers, Sequences, FiniteSets, TLC

\* ------------------------------------------------------------------ bounds
MaxRuns == 2        \* nruns: trials run by the loop
MaxGen == 1         \* largest n_traffic_generators tried
MaxPolls == 3       \* group polls followed per teardown
MaxTrees == 2       \* largest ntrees tried
MaxSwitches == 2    \* most switches of a topology tried
MaxHosts == 3       \* most hosts of a topology tried
MaxPopenTime == 1   \* longest time, in seconds, a popen call is taken to need
MaxListeners == 2   \* most iperf listeners a teardown is followed with

\* --------------------------------------------------------------- constants
EXPERIMENT_DURATION == 35
SEISMIC_EVENT_DELAY == 25
SLEEP_TIME_BETWEEN_RUNS == 5
ENETUNREACH == 101
\* SeismicServer.EXIT_CODE_NO_SUBSCRIBERS is imported from the server module;
\* only its being a non-zero code distinct from the others matters here.
EXIT_CODE_NO_SUBSCRIBERS == 10

\* Exit codes a process wait() is taken to return: success, the two
\* designated codes and one arbitrary other failure.
ExitCodes == {0, EXIT_CODE_NO_SUBSCRIBERS, ENETUNREACH, 1}
\* Numbers of groups a get_groups() poll is taken to report.
GroupCounts == {0, 1, 3}

AdapterTypes == {"onos", "floodlight", "bogus"}
Comparisons == {"None", "unicast", "oracle"}

\* ---------------------------------------------------- the abstract topology
\* What NetworkxSdnTopology(topology_filename) yields: names follow the
\* conventions of campus_topo_gen.py.
TopoSwitches == <<"b0", "m1">>
TopoHosts == <<"h1-b0", "h2-m1">>
TopoServers == <<"s0">>
TopoLinks == << <<"s0", "b0">>, <<"b0", "m1">>, <<"h1-b0", "b0">>, <<"h2-m1", "m1">> >>

Range(s) == {s[i] : i \in DOMAIN s}

RECURSIVE SetToSeq(_)
\* The elements of a finite set, in some fixed order.
SetToSeq(S) ==
    IF S = {} THEN <<>>
    ELSE LET x == CHOOSE y \in S : TRUE IN <<x>> \o SetToSeq(S \ {x})

\* Keeps the elements of sequence s that are in set S, in the order of s.
SelectIn(s, S) == SelectSeq(s, LAMBDA x : x \in S)

\* ------------------------------------------------------- names and addresses
\* A Python string is a sequence of characters; a name is known here by its
\* spelling.  The names are those of campus_topo_gen.py (switches: a class
\* letter and a number; hosts: h<num>-<type><building>; the server s0), the
\* names setup_topology derives from the server's, and host names that do
\* not follow the convention.
Chars ==
    ("b0" :> <<"b", "0">>) @@ ("b1" :> <<"b", "1">>) @@ ("b10" :> <<"b", "1", "0">>)
    @@ ("c0" :> <<"c", "0">>) @@ ("m0" :> <<"m", "0">>) @@ ("m1" :> <<"m", "1">>)
    @@ ("s0" :> <<"s", "0">>) @@ ("e0" :> <<"e", "0">>) @@ ("hs0" :> <<"h", "s", "0">>)
    @@ ("h1-b0" :> <<"h", "1", "-", "b", "0">>)
    @@ ("h2-m1" :> <<"h", "2", "-", "m", "1">>)
    @@ ("h10-b1" :> <<"h", "1", "0", "-", "b", "1">>)
    @@ ("h1-m0" :> <<"h", "1", "-", "m", "0">>)
    @@ ("h1-b10" :> <<"h", "1", "-", "b", "1", "0">>)
    @@ ("h1-x0" :> <<"h", "1", "-", "x", "0">>)
    @@ ("g1-b0" :> <<"g", "1", "-", "b", "0">>)
    @@ ("h1-b0x" :> <<"h", "1", "-", "b", "0", "x">>)

\* The name spelled cs.
NameOf(cs) == CHOOSE n \in DOMAIN Chars : Chars[n] = cs

DigitChars == <<"0", "1", "2", "3", "4", "5", "6", "7", "8", "9">>
IsDigit(c) == c \in Range(DigitChars)
DigitVal(c) == (CHOOSE i \in DOMAIN DigitChars : DigitChars[i] = c) - 1

RECURSIVE ParseInt(_)
\* int(cs) for a non-empty string of decimal digits.
ParseInt(cs) ==
    IF Len(cs) = 1 THEN DigitVal(cs[1])
    ELSE 10 * ParseInt(SubSeq(cs, 1, Len(cs) - 1)) + DigitVal(cs[Len(cs)])

\* str.replace(old, new) on single characters.
Replace(cs, old, new) == [i \in DOMAIN cs |-> IF cs[i] = old THEN new ELSE cs[i]]

\* The length of the longest run of digits of cs that starts at position i:
\* what a greedy \d+ takes there (0: no digit at i).
DigitRun(cs, i) ==
    LET ends == {j \in (i - 1)..Len(cs) : \A k \in i..j : IsDigit(cs[k])}
    IN  (CHOOSE j \in ends : \A k \in ends : k <= j) - (i - 1)

NoMatch == <<>>

\* re.match('h(\d+)-([mb])(\d+)', host).groups() (line 246): the pattern is
\* matched at the start of the name, and what follows the match is ignored.
\* The groups host_num, building_type, building_num, or NoMatch.
ReMatch(cs) ==
    LET n1 == DigitRun(cs, 2)
        n2 == DigitRun(cs, n1 + 4)
    IN  IF /\ Len(cs) >= 1 /\ cs[1] = "h"
           /\ n1 >= 1
           /\ Len(cs) >= n1 + 3
           /\ cs[n1 + 2] = "-"
           /\ cs[n1 + 3] \in {"m", "b"}
           /\ n2 >= 1
        THEN <<SubSeq(cs, 2, n1 + 1), cs[n1 + 3], SubSeq(cs, n1 + 4, n1 + 3 + n2)>>
        ELSE NoMatch

\* __get_ip_for_host (lines 244-247) for a name the pattern matches:
\* "10.%d.%s.%s" % (131 if building_type == 'b' else 200, building_num, host_num).
GetIpForHost(host) ==
    LET g == ReMatch(Chars[host]) IN
    <<"1", "0", ".">>
    \o (IF g[2] = "b" THEN <<"1", "3", "1">> ELSE <<"2", "0", "0">>)
    \o <<".">> \o g[3] \o <<".">> \o g[1]

\* mac_for_host (topology_manager.test_sdn_topology): the MAC address of
\* number n, here its six octets (n is below 2^32: the first two are 0).
MacForHost(n) ==
    <<0, 0, (n \div 16777216) % 256, (n \div 65536) % 256, (n \div 256) % 256, n % 256>>

\* __get_mac_for_switch using the number of the name alone.
GetMacForSwitch_NumberOnly(switch) ==
    <<0, 0, 0>> \o Tail(MacForHost(ParseInt(Tail(Chars[switch]))))

\* __get_mac_for_switch (lines 223-236): the class letter, with 'm' mapped
\* to 'a', then '0:00:00', then the MAC of the name's number without its
\* first octet: eight octets, the first made of the letter and a zero.
GetMacForSwitch(switch) ==
    LET mac == MacForHost(ParseInt(Tail(Chars[switch])))
        letter == Chars[switch][1]
        first_letter == IF letter = "m" THEN "a" ELSE letter
    IN  <<first_letter, 0, 0>> \o Tail(mac)

\* Lines 257-261: the names of the switch identifier and of the host that
\* stand for a server.
ServerSwitchName(server) == NameOf(Replace(Chars[server], "s", "e"))
ServerHostName(server) == NameOf(<<"h">> \o Chars[server])

NatName == "nat0"

\* MULTICAST_ADDRESS_BASE (line 45), u'224.0.0.1', as the four octets of
\* its IPv4Address.
MulticastAddressBase == <<224, 0, 0, 1>>

\* IPv4Address a + i, for an i that stays within the address space: the sum
\* is taken on the three low octets and carried into the first.
AddressPlus(a, i) ==
    LET low == a[2] * 65536 + a[3] * 256 + a[4] + i
    IN  <<a[1] + (low \div 16777216), (low \div 65536) % 256, (low \div 256) % 256, low % 256>>

\* McastAddressPool without the increment: the base address ntrees times.
McastAddressPool_BaseOnly(ntrees) == [i \in 1..ntrees |-> MulticastAddressBase]

\* Line 136: [str(base_addr + i) for i in range(ntrees)].
McastAddressPool(ntrees) == [i \in 1..ntrees |-> AddressPlus(MulticastAddressBase, i - 1)]

VARIABLES
    params,              \* constructor arguments: topology_adapter_type, comparison, n_traffic_generators, ntrees
    topo,                \* what NetworkxSdnTopology(self.topology_filename) yields
    mcast_address_pool,  \* self.mcast_address_pool
    clock,               \* time.time() in seconds since setup_topology, and the times read off it
    pc,                  \* position of the orchestrator
    error,               \* the exception that ended the run, or "None"
    current_run_number,  \* loop index of run_all_experiments
    net,                 \* self.net: the emulated network of the trial
    hosts, switches, links,              \* self.hosts, self.switches, self.links
    topology_adapter,    \* self.topology_adapter
    popens, client_iperfs, server_iperfs,  \* the process rosters
    procs,               \* the process table: state of each spawned process, by pid
    trial,               \* arguments of run_experiment chosen by the run loop
    ngroups,             \* local ngroups of teardown_experiment
    npolls,              \* get_groups() polls made in this teardown
    result,              \* return value of run_experiment
    calls,               \* collaborator calls of the current trial, in order
    last                 \* the latest step's calls with what they returned, and its log messages

vars == <<params, topo, mcast_address_pool, clock, pc, error, current_run_number, net, hosts, switches, links,
          topology_adapter, popens, client_iperfs, server_iperfs, procs, trial,
          ngroups, npolls, result, calls, last>>

\* ------------------------------------------------------------------ values
\* A call (or log message) op on target tgt, for process pid, returning ret.
Ev(op, tgt, pid, ret) == [op |-> op, tgt |-> tgt, pid |-> pid, ret |-> ret]

\* Log messages that depend on what a call returned.
OutcomeLogOps == {"log.warning", "log.error"}

\* The calls (and fixed log messages) among events es, without what they returned.
History(es) ==
    LET cs == SelectSeq(es, LAMBDA e : e.op \notin OutcomeLogOps) IN
    [i \in DOMAIN cs |-> [op |-> cs[i].op, tgt |-> cs[i].tgt, pid |-> cs[i].pid]]

\* The step makes the calls and writes the log messages es, in order.
Did(es) ==
    /\ calls' = calls \o History(es)
    /\ last' = es

NoNet == [state |-> "None", run |-> 0, controller |-> "None",
          switches |-> {}, hosts |-> {}, nat |-> "None",
          dpid |-> <<>>, ip |-> <<>>,
          nodes |-> {}, links |-> {}, intfs |-> {}, down |-> {}, stopped |-> {}]
NoTrial == [failed_nodes |-> <<>>, failed_links |-> <<>>,
            publishers |-> {}, subscribers |-> {}]
NoResult == [set |-> FALSE, outputs_dir |-> 0, logs_dir |-> 0,
             publishers |-> {}, subscribers |-> {}]

Handle(pid, role, node) ==
    [pid |-> pid, role |-> role, node |-> node, run |-> current_run_number]

\* The pid given to the next process started.
NextPid ==
    IF DOMAIN procs = {} THEN 1
    ELSE 1 + CHOOSE p \in DOMAIN procs : \A q \in DOMAIN procs : q <= p

\* The process table without the processes that have terminated.
Running == [p \in {q \in DOMAIN procs : procs[q] = "running"} |-> procs[p]]

\* The procs table after the processes of handles hs have been started.
Started(hs) ==
    [p \in DOMAIN procs \cup {hs[i].pid : i \in DOMAIN hs} |->
        IF p \in DOMAIN procs THEN procs[p] ELSE "running"]

\* The procs table after the processes of pids ps have terminated.
Terminated(ps) == [p \in DOMAIN procs |-> IF p \in ps THEN "exited" ELSE procs[p]]

\* The clock at the start of a trial, on a machine where a popen call takes
\* d seconds: no configuration begun, no process started.
NoClock(d) == [now |-> 0, popen_time |-> d, configuring_since |-> 0, started |-> <<>>]

\* The clock after time.sleep(secs).
Slept(secs) == [clock EXCEPT !.now = @ + secs]

\* The clock after the popen calls for handles hs, made one after the other:
\* each process starts when its call is made.
Spawned(c, hs) ==
    [c EXCEPT !.now = @ + Len(hs) * c.popen_time,
              !.started = [p \in DOMAIN c.started \cup {hs[i].pid : i \in DOMAIN hs} |->
                              IF p \in DOMAIN c.started THEN c.started[p]
                              ELSE c.now + ((CHOOSE i \in DOMAIN hs : hs[i].pid = p) - 1) * c.popen_time]]

\* -------------------------------------------------------------------- Init
\* The topology of the trials of the run loop.
DefaultTopology ==
    [switches |-> TopoSwitches, hosts |-> TopoHosts, servers |-> TopoServers,
     links |-> TopoLinks]

\* Switch and host names topologies are made of; the last three host names
\* do not follow the convention.
SwitchNames == {"b0", "b1", "b10", "c0", "m0", "m1"}
HostNames == {"h1-b0", "h2-m1", "h10-b1", "h1-m0", "h1-b10", "h1-x0", "g1-b0", "h1-b0x"}

\* Links of a topology of switches sw and hosts hs: the server and every
\* host on the first switch, the switches in a chain.
LinksOf(sw, hs) ==
    <<<<TopoServers[1], sw[1]>>>>
    \o [i \in 1..(Len(sw) - 1) |-> <<sw[i], sw[i + 1]>>]
    \o [i \in DOMAIN hs |-> <<hs[i], sw[1]>>]

\* The topologies setup_topology is tried on: one server, up to MaxSwitches
\* switches and up to MaxHosts hosts.
Topologies ==
    {[switches |-> SetToSeq(S), hosts |-> SetToSeq(H), servers |-> TopoServers,
      links |-> LinksOf(SetToSeq(S), SetToSeq(H))] :
        S \in {X \in SUBSET SwitchNames : Cardinality(X) \in 1..MaxSwitches},
        H \in {X \in SUBSET HostNames : Cardinality(X) <= MaxHosts}}

\* The constructor arguments the trials of the run loop are tried with.
ParamChoices ==
    [topology_adapter_type : AdapterTypes,
     comparison : Comparisons,
     n_traffic_generators : 0..MaxGen,
     ntrees : {MaxTrees}]

\* The defaults of __init__ (lines 71-73).
DefaultParams ==
    [topology_adapter_type |-> "onos", comparison |-> "None",
     n_traffic_generators |-> 0, ntrees |-> MaxTrees]

\* __init__ (lines 68-136) with arguments from ps: empty rosters and
\* collections, no network, no adapter, the multicast address pool of ntrees
\* addresses.
Constructed(ps) ==
    /\ params \in ps
    /\ mcast_address_pool = McastAddressPool(params.ntrees)
    /\ pc = "idle"
    /\ error = "None"
    /\ current_run_number = 0
    /\ net = NoNet
    /\ hosts = <<>> /\ switches = <<>> /\ links = <<>>
    /\ topology_adapter = "None"
    /\ popens = <<>> /\ client_iperfs = <<>> /\ server_iperfs = <<>>
    /\ procs = [p \in {} |-> "running"]
    /\ trial = NoTrial
    /\ ngroups = 0
    /\ npolls = 0
    /\ result = NoResult
    /\ calls = <<>>
    /\ last = <<>>

Init ==
    /\ topo = DefaultTopology
    /\ clock = NoClock(0)
    /\ Constructed(ParamChoices)

\* ------------------------------------------------- one trial: the run loop
\* A realized element: the object created for `name` in the current trial.
Elem(name) == [name |-> name, run |-> current_run_number]

Elems(names) == [i \in DOMAIN names |-> Elem(names[i])]

\* Index of the first host of topology t whose name the pattern of line 246
\* does not match, or 0 if it matches every name.
FirstBadHost(t) ==
    LET bad == {i \in DOMAIN t.hosts : ReMatch(Chars[t.hosts[i]]) = NoMatch}
    IN  IF bad = {} THEN 0 ELSE CHOOSE i \in bad : \A j \in bad : i <= j

\* RealizedSwitches without the switch that stands for the server.
RealizedSwitches_NoServerSwitch(t, servers) == Range(t.switches)

\* Lines 238-242 and 260: a switch for every switch of the topology and
\* one, under the server's name, for every server.
RealizedSwitches(t, servers) == Range(t.switches) \cup Range(servers)

\* Lines 240 and 258-260: the dpid each switch is added with.
SwitchDpids(t, servers) ==
    [s \in RealizedSwitches(t, servers) |->
        IF s \in Range(t.switches) THEN GetMacForSwitch(s)
        ELSE GetMacForSwitch(ServerSwitchName(s))]

\* Lines 259-281 and 289: every link gives each of its two ends an interface.
IntfsOf(lks) == UNION {{<<l[1], l>>, <<l[2], l>>} : l \in lks}

\* setup_topology (lines 193-297), called by the run loop at the start of
\* every trial: a new Mininet object and its controller, every switch and
\* host of the topology appended to self.switches and self.hosts, each
\* server as a switch plus the host 'h' + server, every link appended to
\* self.links, the NAT node linked to the server.  A host name the pattern
\* does not match ends it with AttributeError (None has no groups) when the
\* switches and the hosts before it have been added.
SetupTopology ==
    /\ pc = "idle"
    /\ current_run_number < MaxRuns
    /\ LET k == FirstBadHost(topo)
           made == IF k = 0 THEN topo.hosts ELSE SubSeq(topo.hosts, 1, k - 1)
           servers == IF k = 0 THEN topo.servers ELSE <<>>
           server_hosts == {ServerHostName(servers[i]) : i \in DOMAIN servers}
           sws == RealizedSwitches(topo, servers)
           hs == Range(made) \cup server_hosts \cup (IF k = 0 THEN {NatName} ELSE {})
           lks == IF k = 0
                  THEN Range(topo.links)
                       \cup {<<servers[i], ServerHostName(servers[i])>> : i \in DOMAIN servers}
                       \cup {<<NatName, ServerHostName(servers[Len(servers)])>>}
                  ELSE {}
       IN  /\ net' = [state |-> "created", run |-> current_run_number,
                      controller |-> "c0",
                      switches |-> sws,
                      hosts |-> hs,
                      nat |-> IF k = 0 THEN NatName ELSE "None",
                      dpid |-> SwitchDpids(topo, servers),
                      ip |-> [h \in Range(made) |-> GetIpForHost(h)],
                      nodes |-> sws \cup hs,
                      links |-> lks,
                      intfs |-> IntfsOf(lks),
                      down |-> {}, stopped |-> {}]
           /\ switches' = switches \o Elems(topo.switches)
           /\ hosts' = hosts \o Elems(made)
           /\ links' = IF k = 0 THEN links \o Elems(topo.links) ELSE links
           /\ pc' = IF k = 0 THEN "choose" ELSE "raised"
           /\ error' = IF k = 0 THEN error ELSE "AttributeError"
    /\ trial' = NoTrial
    /\ result' = NoResult
    /\ calls' = <<>>
    /\ last' = <<>>
    /\ procs' = Running
    /\ UNCHANGED <<params, topo, mcast_address_pool, current_run_number,
                   topology_adapter, popens, client_iperfs, server_iperfs,
                   ngroups, npolls>>
    /\ clock' = NoClock(clock.popen_time)

\* The nodes and links the failure model is taken to pick from: elements of
\* the abstract topology (the server is never failed; the NAT node and its
\* link are not in the topology at all).
FailableNodes == {"m1", "h1-b0"}
FailableLinks == {<<"b0", "m1">>, <<"h2-m1", "m1">>}
\* The publisher and subscriber sets the run loop is taken to pick from.
PublisherChoices == {{}, {"h1-b0"}, {"h2-m1"}}
SubscriberChoices == {{}, {"h1-b0"}, {"h2-m1"}}

\* The run loop's choices for the trial: choose_subscribers, choose_publishers,
\* choose_server and get_failed_nodes_links (lines 311-340) turn the names
\* chosen by the superclass into nodes of self.net.
ChooseTrial ==
    /\ pc = "choose"
    /\ \E pubs \in PublisherChoices, subs \in SubscriberChoices,
          fn \in SUBSET FailableNodes, fl \in SUBSET FailableLinks :
          trial' = [failed_nodes |-> SelectIn(TopoSwitches \o TopoHosts, fn),
                    failed_links |-> SelectIn(TopoLinks, fl),
                    publishers |-> pubs, subscribers |-> subs]
    /\ pc' = "start"
    /\ UNCHANGED <<params, topo, mcast_address_pool, clock, error, current_run_number, net, hosts, switches, links,
                   topology_adapter, popens, client_iperfs, server_iperfs, procs,
                   ngroups, npolls, result, calls, last>>

\* ---------------------------------------------------------- run_experiment
\* Lines 360-363: build and start the network, wait for the switches.
StartNetwork ==
    /\ pc = "start"
    /\ net' = [net EXCEPT !.state = "started"]
    /\ Did(<<Ev("net.start", <<>>, 0, 0)>>)
    /\ pc' = "probe"
    /\ UNCHANGED <<params, topo, mcast_address_pool, clock, error, current_run_number, hosts, switches, links,
                   topology_adapter, popens, client_iperfs, server_iperfs, procs,
                   trial, ngroups, npolls, result>>

\* What lines 366-396 do for a ping that reports `loss`.
ProbeCalls(loss) ==
    <<Ev("sleep", <<"converge">>, 0, 5),
      Ev("setDefaultRoute", <<"hs0">>, 0, 0)>>
    \o [i \in DOMAIN mcast_address_pool |-> Ev("setHostRoute", mcast_address_pool[i], 0, 0)]
    \o <<Ev("ping", SetToSeq(net.hosts \ {net.nat}), 0, loss)>>
    \o (IF loss > 0 THEN <<Ev("log.warning", <<"ping loss">>, 0, loss)>> ELSE <<>>)
    \o <<Ev("staticArp", <<>>, 0, 0)>>

\* ConvergeAndProbe treating a ping loss as fatal.
ConvergeAndProbe_AbortsOnLoss ==
    /\ pc = "probe"
    /\ \E loss \in {0, 50} :
          /\ Did(IF loss > 0
                 THEN SubSeq(ProbeCalls(loss), 1, Len(ProbeCalls(loss)) - 1)
                 ELSE ProbeCalls(loss))
          /\ pc' = IF loss > 0 THEN "raised" ELSE "topology_manager"
          /\ error' = IF loss > 0 THEN "RuntimeError" ELSE error
    /\ clock' = Slept(5)
    /\ UNCHANGED <<params, topo, mcast_address_pool, current_run_number, net,
                   hosts, switches, links, topology_adapter, popens, client_iperfs,
                   server_iperfs, procs, trial, ngroups, npolls, result>>

\* Lines 366-396: convergence sleep, the server's default route and a host
\* route for every address of the pool, ping among all hosts but the NAT (a
\* loss is only warned about), then static ARP.
ConvergeAndProbe ==
    /\ pc = "probe"
    /\ \E loss \in {0, 50} : Did(ProbeCalls(loss))
    /\ pc' = "topology_manager"
    /\ UNCHANGED <<params, topo, mcast_address_pool, error, current_run_number, net, hosts, switches, links,
                   topology_adapter, popens, client_iperfs, server_iperfs, procs,
                   trial, ngroups, npolls, result>>
    /\ clock' = Slept(5)

\* setup_topology_manager (lines 432-448): instantiate the adapter of the
\* configured type; any other type logs an error and exits with status 102.
SetupTopologyManager ==
    /\ pc = "topology_manager"
    /\ IF params.topology_adapter_type \in {"onos", "floodlight"}
       THEN /\ topology_adapter' = params.topology_adapter_type
            /\ Did(<<Ev("SdnTopologyAdapter", <<params.topology_adapter_type>>, 0, 0)>>)
            /\ pc' = "traffic_generators"
            /\ error' = error
       ELSE /\ topology_adapter' = topology_adapter
            /\ Did(<<Ev("log.error", <<"unrecognized adapter type">>, 0, 0)>>)
            /\ pc' = "raised"
            /\ error' = "SystemExit"
    /\ UNCHANGED <<params, topo, mcast_address_pool, clock, current_run_number, net, hosts, switches, links,
                   popens, client_iperfs, server_iperfs, procs, trial, ngroups,
                   npolls, result>>

\* The popen calls that start the processes of handles hs, in order.
PopenCalls(hs) == [i \in DOMAIN hs |-> Ev("popen", <<hs[i].node, hs[i].role>>, hs[i].pid, 0)]

\* Lines 467-474: for the n-th generator, an iperf client on the generator
\* host and then an iperf listener on the server.
IperfHandles(gens) ==
    [i \in 1..(2 * Len(gens)) |->
        IF i % 2 = 1
        THEN Handle(NextPid + i - 1, "iperf_client", gens[(i + 1) \div 2])
        ELSE Handle(NextPid + i - 1, "iperf_server", "hs0")]

HandlesOf(hs, role) == SelectSeq(hs, LAMBDA h : h.role = role)

\* SetupTrafficGenerators without line 474: the listeners are started and
\* their handles dropped.
SetupTrafficGenerators_ListenersUntracked ==
    /\ pc = "traffic_generators"
    /\ \E gens \in SUBSET Range(TopoHosts) :
          /\ Cardinality(gens) = params.n_traffic_generators
          /\ LET hs == IperfHandles(SelectIn(TopoHosts, gens)) IN
             /\ client_iperfs' = client_iperfs \o HandlesOf(hs, "iperf_client")
             /\ server_iperfs' = server_iperfs
             /\ procs' = Started(hs)
             /\ clock' = Spawned([clock EXCEPT !.configuring_since = clock.now], hs)
             /\ Did(PopenCalls(hs))
    /\ pc' = "seismic_test"
    /\ UNCHANGED <<params, topo, mcast_address_pool, error, current_run_number, net, hosts, switches, links,
                   topology_adapter, popens, trial, ngroups, npolls, result>>

\* setup_traffic_generators (lines 450-474): n_traffic_generators random
\* hosts.  It is the first step of the configuration announced at line 400.
SetupTrafficGenerators ==
    /\ pc = "traffic_generators"
    /\ \E gens \in SUBSET Range(TopoHosts) :
          /\ Cardinality(gens) = params.n_traffic_generators
          /\ LET hs == IperfHandles(SelectIn(TopoHosts, gens)) IN
             /\ client_iperfs' = client_iperfs \o HandlesOf(hs, "iperf_client")
             /\ server_iperfs' = server_iperfs \o HandlesOf(hs, "iperf_server")
             /\ procs' = Started(hs)
             /\ clock' = Spawned([clock EXCEPT !.configuring_since = clock.now], hs)
             /\ Did(PopenCalls(hs))
    /\ pc' = "seismic_test"
    /\ UNCHANGED <<params, topo, mcast_address_pool, error, current_run_number, net, hosts, switches, links,
                   topology_adapter, popens, trial, ngroups, npolls, result>>

\* SeismicHandles with the client loop left out: only the server is started.
SeismicHandles_ServerOnly(clients) ==
    <<Handle(NextPid, "server", "hs0")>>

\* SeismicHandles starting a process per role: a node that is both sensor and
\* subscriber gets two.
SeismicHandles_PerRole(clients) ==
    LET roles == SelectIn(TopoHosts, trial.publishers) \o SelectIn(TopoHosts, trial.subscribers) IN
    <<Handle(NextPid, "server", "hs0")>>
    \o [i \in DOMAIN roles |-> Handle(NextPid + i, "client", roles[i])]

\* Lines 576-606: the server process first, then one process per client.
SeismicHandles(clients) ==
    <<Handle(NextPid, "server", "hs0")>>
    \o [i \in DOMAIN clients |-> Handle(NextPid + i, "client", clients[i])]

\* ------------------------------------------------- control-plane identifiers
\* The class of the Mininet node the network holds under a name: the switches
\* are OVSKernelSwitch objects (lines 240 and 260), the hosts Host objects
\* (lines 250 and 261), the NAT node is neither.
NodeClass(n) ==
    IF n \in net.switches THEN "Switch"
    ELSE IF n \in net.hosts \ {net.nat} THEN "Host"
    ELSE "Node"

\* host.IP(): the address the host was added with; the server host was added
\* without one (line 261) and has the one Mininet gave it.
HostIP(h) == IF h \in DOMAIN net.ip THEN net.ip[h] ELSE <<"auto", h>>

\* What an identifier derivation yields: an identifier, or the exception raised.
Dpid(scheme, of) == [error |-> "None", scheme |-> scheme, of |-> of]
DpidError(e) == [error |-> e, scheme |-> "None", of |-> <<>>]

\* get_host_dpid (lines 687-701): the MAC of the default interface plus
\* '/None' for onos, the IP address for floodlight.
GetHostDpid(adapter_type, host) ==
    IF adapter_type = "onos" THEN Dpid("mac/None", <<host>>)
    ELSE IF adapter_type = "floodlight" THEN Dpid("ip", HostIP(host))
    ELSE DpidError("ValueError")

\* get_switch_dpid (lines 703-716): 'of:' plus the dpid for onos;
\* NotImplementedError for floodlight.
GetSwitchDpid(adapter_type, switch) ==
    IF adapter_type = "onos" THEN Dpid("of:dpid", net.dpid[switch])
    ELSE IF adapter_type = "floodlight" THEN DpidError("NotImplementedError")
    ELSE DpidError("ValueError")

\* get_node_dpid (lines 718-730).
GetNodeDpid(adapter_type, node) ==
    IF NodeClass(node) = "Switch" THEN GetSwitchDpid(adapter_type, node)
    ELSE IF NodeClass(node) = "Host" THEN GetHostDpid(adapter_type, node)
    ELSE DpidError("TypeError")

\* The neighbours of a node in the abstract topology.
Neighbours(n) ==
    {l[2] : l \in {k \in Range(TopoLinks) : k[1] = n}}
    \cup {l[1] : l \in {k \in Range(TopoLinks) : k[2] = n}}

RECURSIVE PathsFrom(_, _)
\* The loop-free paths of the abstract topology that extend path to dst.
PathsFrom(path, dst) ==
    IF path[Len(path)] = dst THEN {path}
    ELSE UNION {PathsFrom(Append(path, x), dst) : x \in Neighbours(path[Len(path)]) \ Range(path)}

\* self.topo.get_path(src, dst) (line 535): a shortest path, as names.
GetPath(src, dst) ==
    LET ps == PathsFrom(<<src>>, dst) IN
    CHOOSE p \in ps : \A q \in ps : Len(p) <= Len(q)

\* Lines 534-540: the nodes whose identifiers make the static route to
\* subscriber sub: the server host, then the nodes the network holds under
\* the names of the path from the server (its switch, line 260) to sub.
StaticRouteNodes(sub) == <<ServerHostName(TopoServers[1])>> \o GetPath(TopoServers[1], sub)

\* Lines 527-548: with the unicast comparison a static route is installed for
\* every subscriber; its path holds the server switch, whose identifier
\* get_switch_dpid (lines 703-716) derives only for onos: floodlight raises
\* NotImplementedError, which is logged and raised again.
StaticRouteRaises ==
    /\ params.comparison = "unicast"
    /\ trial.subscribers # {}
    /\ params.topology_adapter_type = "floodlight"

StaticRouteCalls ==
    IF params.comparison = "unicast"
    THEN LET subs == SelectIn(TopoHosts, trial.subscribers) IN
         [i \in DOMAIN subs |-> Ev("install_flow_rule", <<subs[i]>>, 0, 0)]
    ELSE <<>>

\* setup_seismic_test (lines 477-612).  When server.IP() is the loopback
\* address (localhost) the assertion of line 588 fails: the server has been
\* started and appended to popens, no client has.
SetupSeismicTest ==
    /\ pc = "seismic_test"
    /\ IF StaticRouteRaises
       THEN /\ Did(<<Ev("log.error", <<"static route">>, 0, 0)>>)
            /\ pc' = "raised"
            /\ error' = "NotImplementedError"
            /\ UNCHANGED <<popens, procs, clock>>
       ELSE \E localhost \in BOOLEAN :
            LET clients == SelectIn(TopoHosts, trial.publishers \cup trial.subscribers)
                all == SeismicHandles(clients)
                hs == IF localhost THEN SubSeq(all, 1, 1) ELSE all IN
            /\ popens' = popens \o hs
            /\ procs' = Started(hs)
            /\ clock' = Spawned(clock, hs)
            /\ Did(StaticRouteCalls \o PopenCalls(hs))
            /\ pc' = IF localhost THEN "raised" ELSE "arm"
            /\ error' = IF localhost THEN "AssertionError" ELSE error
    /\ UNCHANGED <<params, topo, mcast_address_pool, current_run_number, net, hosts, switches, links,
                   topology_adapter, client_iperfs, server_iperfs, trial, ngroups,
                   npolls, result>>

\* PreEventSleep without the failure application after it: the orchestrator
\* sleeps and goes straight on to the observation sleep.
PreEventSleep_SkipsInjection ==
    /\ pc = "arm"
    /\ Did(<<Ev("sleep", <<"pre-event">>, 0, SEISMIC_EVENT_DELAY - 1)>>)
    /\ pc' = "observe"
    /\ UNCHANGED <<params, topo, mcast_address_pool, error, current_run_number, net, hosts, switches, links,
                   topology_adapter, popens, client_iperfs, server_iperfs, procs,
                   trial, ngroups, npolls, result>>
    /\ clock' = Slept(SEISMIC_EVENT_DELAY - 1)

\* Line 415: sleep until a second before the event.
PreEventSleep ==
    /\ pc = "arm"
    /\ Did(<<Ev("sleep", <<"pre-event">>, 0, SEISMIC_EVENT_DELAY - 1)>>)
    /\ pc' = "inject"
    /\ UNCHANGED <<params, topo, mcast_address_pool, error, current_run_number, net, hosts, switches, links,
                   topology_adapter, popens, client_iperfs, server_iperfs, procs,
                   trial, ngroups, npolls, result>>
    /\ clock' = Slept(SEISMIC_EVENT_DELAY - 1)

\* FailureCalls with the two loops exchanged: nodes are stopped first.
FailureCalls_NodesFirst(failed_links, failed_nodes) ==
    [i \in DOMAIN failed_nodes |-> Ev("node.stop", <<failed_nodes[i]>>, 0, 0)]
    \o [i \in DOMAIN failed_links |-> Ev("configLinkStatus", failed_links[i], 0, 0)]

\* FailureCalls stopping the NAT node as well.
FailureCalls_AlsoNat(failed_links, failed_nodes) ==
    [i \in DOMAIN failed_links |-> Ev("configLinkStatus", failed_links[i], 0, 0)]
    \o [i \in DOMAIN failed_nodes |-> Ev("node.stop", <<failed_nodes[i]>>, 0, 0)]
    \o <<Ev("node.stop", <<NatName>>, 0, 0)>>

\* Lines 417-420: every failed link is configured down, then every failed
\* node is stopped with deleteIntfs=False.
FailureCalls(failed_links, failed_nodes) ==
    [i \in DOMAIN failed_links |-> Ev("configLinkStatus", failed_links[i], 0, 0)]
    \o [i \in DOMAIN failed_nodes |-> Ev("node.stop", <<failed_nodes[i]>>, 0, 0)]

\* NetAfter with node.stop() deleting the interfaces of the node it stops.
NetAfter_DeletesIntfs(n, cs) ==
    LET gone == {cs[i].tgt[1] : i \in {j \in DOMAIN cs : cs[j].op = "node.stop"}} IN
    [n EXCEPT !.down = @ \cup {cs[i].tgt : i \in {j \in DOMAIN cs : cs[j].op = "configLinkStatus"}},
              !.stopped = @ \cup gone,
              !.intfs = {x \in @ : x[1] \notin gone}]

\* The network after the calls cs have acted on it: configLinkStatus(..., 'down')
\* takes a link down, node.stop(deleteIntfs=False) stops a node and leaves
\* its interfaces.
NetAfter(n, cs) ==
    [n EXCEPT !.down = @ \cup {cs[i].tgt : i \in {j \in DOMAIN cs : cs[j].op = "configLinkStatus"}},
              !.stopped = @ \cup {cs[i].tgt[1] : i \in {j \in DOMAIN cs : cs[j].op = "node.stop"}}]

\* Lines 416-420: apply the failure model.
ApplyFailures ==
    /\ pc = "inject"
    /\ LET cs == FailureCalls(trial.failed_links, trial.failed_nodes) IN
       /\ Did(<<Ev("log.info", <<"Applying failure model">>, 0, 0)>> \o cs)
       /\ net' = NetAfter(net, cs)
    /\ pc' = "observe"
    /\ UNCHANGED <<params, topo, mcast_address_pool, clock, error, current_run_number, hosts, switches, links,
                   topology_adapter, popens, client_iperfs, server_iperfs, procs,
                   trial, ngroups, npolls, result>>

\* Lines 428-430: the record run_experiment returns.
TrialResult ==
    [set |-> TRUE, outputs_dir |-> current_run_number, logs_dir |-> current_run_number,
     publishers |-> trial.publishers, subscribers |-> trial.subscribers]

\* Lines 426-430: sleep to the end of the experiment and return the result;
\* the run loop then calls teardown_experiment.
ObservationSleep ==
    /\ pc = "observe"
    /\ Did(<<Ev("sleep", <<"observe">>, 0, EXPERIMENT_DURATION - SEISMIC_EVENT_DELAY)>>)
    /\ result' = TrialResult
    /\ pc' = "reap_server"
    /\ UNCHANGED <<params, topo, mcast_address_pool, error, current_run_number, net, hosts, switches, links,
                   topology_adapter, popens, client_iperfs, server_iperfs, procs,
                   trial, ngroups, npolls>>
    /\ clock' = Slept(EXPERIMENT_DURATION - SEISMIC_EVENT_DELAY)

\* ------------------------------------------------------ teardown_experiment
\* ServerHandle taking the last handle of the roster for the server's.
ServerHandle_Last(roster) == roster[Len(roster)]

\* self.popens[0] (line 619) and self.popens[1:] (line 627).
ServerHandle(roster) == roster[1]
ClientHandles(roster) == Tail(roster)

\* Lines 620-626: what the server's exit code is taken to mean.
ClassifyServer(ret) ==
    IF ret = 0 THEN "ok"
    ELSE IF ret = EXIT_CODE_NO_SUBSCRIBERS THEN "no_subscribers"
    ELSE "unexpected"

\* ClassifyClient without the test for ENETUNREACH.
ClassifyClient_IgnoresEnetunreach(ret) ==
    IF ret = 0 THEN "ok" ELSE "unexpected"

\* Lines 631-636: what a client's exit code is taken to mean.
ClassifyClient(ret) ==
    IF ret = 0 THEN "ok"
    ELSE IF ret = ENETUNREACH THEN "net_unreachable"
    ELSE "unexpected"

\* The log.error call, if any, for an exit code of the given class.
OutcomeLog(who, class, pid, ret) ==
    IF class = "ok" THEN <<>> ELSE <<Ev("log.error", <<who, class>>, pid, ret)>>

\* TdReapServer raising on a server failure instead of logging it.
TdReapServer_AbortsOnFailure ==
    /\ pc = "reap_server"
    /\ popens # <<>>
    /\ \E ret \in ExitCodes :
          LET p == popens[1] IN
          /\ Did(<<Ev("log.info", <<"Experiment complete">>, 0, 0),
                   Ev("wait", <<p.node, p.role>>, p.pid, ret)>>)
          /\ procs' = Terminated({p.pid})
          /\ pc' = IF ret = 0 THEN "reap_clients" ELSE "raised"
          /\ error' = IF ret = 0 THEN error ELSE "RuntimeError"
    /\ UNCHANGED <<params, topo, mcast_address_pool, clock, current_run_number, net, hosts, switches, links,
                   topology_adapter, popens, client_iperfs, server_iperfs, trial,
                   ngroups, npolls, result>>

\* Lines 615-626: wait for the server process and classify its exit code.
\* On an empty roster self.popens[0] raises IndexError.
TdReapServer ==
    /\ pc = "reap_server"
    /\ IF popens = <<>>
       THEN /\ Did(<<Ev("log.info", <<"Experiment complete">>, 0, 0)>>)
            /\ pc' = "raised"
            /\ error' = "IndexError"
            /\ procs' = procs
       ELSE \E ret \in ExitCodes :
            LET p == ServerHandle(popens) IN
            /\ Did(<<Ev("log.info", <<"Experiment complete">>, 0, 0),
                   Ev("wait", <<p.node, p.role>>, p.pid, ret)>>
                   \o OutcomeLog("server", ClassifyServer(ret), p.pid, ret))
            /\ procs' = Terminated({p.pid})
            /\ pc' = "reap_clients"
            /\ error' = error
    /\ UNCHANGED <<params, topo, mcast_address_pool, clock, current_run_number, net, hosts, switches, links,
                   topology_adapter, popens, client_iperfs, server_iperfs, trial,
                   ngroups, npolls, result>>

RECURSIVE ClientReapCalls(_, _)
\* Lines 627-636: for each handle in turn, wait and then classify; rets[i] is
\* the exit code of the i-th handle.
ClientReapCalls(hs, rets) ==
    IF hs = <<>> THEN <<>>
    ELSE <<Ev("wait", <<Head(hs).node, Head(hs).role>>, Head(hs).pid, Head(rets))>>
         \o OutcomeLog("client", ClassifyClient(Head(rets)), Head(hs).pid, Head(rets))
         \o ClientReapCalls(Tail(hs), Tail(rets))

PidsOf(hs) == {hs[i].pid : i \in DOMAIN hs}

\* Lines 627-636: wait for every other process of the roster.
TdReapClients ==
    /\ pc = "reap_clients"
    /\ LET hs == ClientHandles(popens) IN
       \E rets \in [DOMAIN hs -> ExitCodes] :
          /\ Did(ClientReapCalls(hs, rets))
          /\ procs' = Terminated(PidsOf(hs))
    /\ pc' = "reap_iperfs"
    /\ UNCHANGED <<params, topo, mcast_address_pool, clock, error, current_run_number, net, hosts, switches, links,
                   topology_adapter, popens, client_iperfs, server_iperfs, trial,
                   ngroups, npolls, result>>

RECURSIVE KillCalls_StopsAtFirstError(_, _)
\* KillCalls with the try around the whole loop: the first kill that raises
\* ends the loop.
KillCalls_StopsAtFirstError(hs, gone) ==
    IF hs = <<>> THEN <<>>
    ELSE IF Head(hs).pid \in gone
         THEN <<Ev("kill", <<Head(hs).node, Head(hs).role>>, Head(hs).pid, 1)>>
         ELSE <<Ev("kill", <<Head(hs).node, Head(hs).role>>, Head(hs).pid, 0),
                Ev("wait", <<Head(hs).node, Head(hs).role>>, Head(hs).pid, 0)>>
              \o KillCalls_StopsAtFirstError(Tail(hs), gone)

RECURSIVE KillCalls(_, _)
\* Lines 641-646: kill then wait; for a listener in `gone` the kill raises
\* OSError (the kill returns 1 here), which is swallowed, and the wait is skipped.
KillCalls(hs, gone) ==
    IF hs = <<>> THEN <<>>
    ELSE (IF Head(hs).pid \in gone
          THEN <<Ev("kill", <<Head(hs).node, Head(hs).role>>, Head(hs).pid, 1)>>
          ELSE <<Ev("kill", <<Head(hs).node, Head(hs).role>>, Head(hs).pid, 0),
                 Ev("wait", <<Head(hs).node, Head(hs).role>>, Head(hs).pid, 0)>>)
         \o KillCalls(Tail(hs), gone)

\* TdReapIperfs without the kill loop: the iperf listeners, which do not
\* stop by themselves, are left alone.
TdReapIperfs_LeavesListeners ==
    /\ pc = "reap_iperfs"
    /\ Did([i \in DOMAIN client_iperfs |->
             Ev("wait", <<client_iperfs[i].node, client_iperfs[i].role>>, client_iperfs[i].pid, 0)])
    /\ procs' = Terminated(PidsOf(client_iperfs))
    /\ pc' = "reset_rosters"
    /\ UNCHANGED <<params, topo, mcast_address_pool, clock, error, current_run_number, net, hosts, switches, links,
                   topology_adapter, popens, client_iperfs, server_iperfs, trial,
                   ngroups, npolls, result>>

\* Lines 639-646: wait for the iperf clients, kill the iperf listeners.
TdReapIperfs ==
    /\ pc = "reap_iperfs"
    /\ \E gone \in SUBSET PidsOf(server_iperfs) :
          Did([i \in DOMAIN client_iperfs |->
                 Ev("wait", <<client_iperfs[i].node, client_iperfs[i].role>>, client_iperfs[i].pid, 0)]
              \o KillCalls(server_iperfs, gone))
    /\ procs' = Terminated(PidsOf(client_iperfs) \cup PidsOf(server_iperfs))
    /\ pc' = "reset_rosters"
    /\ UNCHANGED <<params, topo, mcast_address_pool, clock, error, current_run_number, net, hosts, switches, links,
                   topology_adapter, popens, client_iperfs, server_iperfs, trial,
                   ngroups, npolls, result>>

\* TdResetRosters leaving self.popens as it is.
TdResetRosters_KeepsPopens ==
    /\ pc = "reset_rosters"
    /\ server_iperfs' = <<>>
    /\ client_iperfs' = <<>>
    /\ Did(<<Ev("log.debug", <<"All processes exited">>, 0, 0)>>)
    /\ pc' = "remove_flows"
    /\ UNCHANGED <<params, topo, mcast_address_pool, clock, error, current_run_number, net, hosts, switches, links,
                   topology_adapter, popens, procs, trial, ngroups, npolls, result>>

\* Lines 647-651: the three rosters are emptied.
TdResetRosters ==
    /\ pc = "reset_rosters"
    /\ popens' = <<>>
    /\ server_iperfs' = <<>>
    /\ client_iperfs' = <<>>
    /\ Did(<<Ev("log.debug", <<"All processes exited">>, 0, 0)>>)
    /\ pc' = "remove_flows"
    /\ UNCHANGED <<params, topo, mcast_address_pool, clock, error, current_run_number, net, hosts, switches, links,
                   topology_adapter, procs, trial, ngroups, npolls, result>>

\* TdRemoveFlows without the group loop: the flow rules are removed and
\* teardown goes on to the network stop.
TdRemoveFlows_SkipsGroupLoop ==
    /\ pc = "remove_flows"
    /\ IF topology_adapter # "None"
       THEN Did(<<Ev("remove_all_flow_rules", <<>>, 0, 0)>>)
       ELSE Did(<<>>)
    /\ ngroups' = ngroups
    /\ pc' = "net_stop"
    /\ npolls' = 0
    /\ UNCHANGED <<params, topo, mcast_address_pool, clock, error, current_run_number, net, hosts, switches, links,
                   topology_adapter, popens, client_iperfs, server_iperfs, procs,
                   trial, result>>

\* Lines 656-665: with an adapter, remove all flow rules once and enter the
\* group loop with ngroups = 1; without one, go on to the network stop.
\* (show_cli, lines 653-654, is off: it is on only for a single run.)
TdRemoveFlows ==
    /\ pc = "remove_flows"
    /\ IF topology_adapter # "None"
       THEN /\ Did(<<Ev("remove_all_flow_rules", <<>>, 0, 0)>>)
            /\ ngroups' = 1
            /\ pc' = "remove_groups"
       ELSE /\ Did(<<>>)
            /\ ngroups' = ngroups
            /\ pc' = "net_stop"
    /\ npolls' = 0
    /\ UNCHANGED <<params, topo, mcast_address_pool, clock, error, current_run_number, net, hosts, switches, links,
                   topology_adapter, popens, client_iperfs, server_iperfs, procs,
                   trial, result>>

\* TdRemoveGroups leaving the loop after its first iteration, whatever the
\* poll reports.
TdRemoveGroups_StopsAfterOne ==
    /\ pc = "remove_groups"
    /\ ngroups > 0
    /\ npolls < MaxPolls
    /\ \E n \in GroupCounts :
          /\ Did(<<Ev("remove_all_groups", <<>>, 0, 0),
                  Ev("sleep", <<"groups">>, 0, 1),
                  Ev("get_groups", <<>>, 0, n)>>)
          /\ ngroups' = n
          /\ pc' = "net_stop"
    /\ npolls' = npolls + 1
    /\ UNCHANGED <<params, topo, mcast_address_pool, error, current_run_number, net, hosts, switches, links,
                   topology_adapter, popens, client_iperfs, server_iperfs, procs,
                   trial, result>>
    /\ clock' = Slept(1)

\* TdRemoveGroups with an iteration cap: after the second poll the loop is
\* left whatever the poll reports.
TdRemoveGroups_GivesUp ==
    /\ pc = "remove_groups"
    /\ ngroups > 0
    /\ npolls < MaxPolls
    /\ \E n \in GroupCounts :
          /\ Did(<<Ev("remove_all_groups", <<>>, 0, 0),
                  Ev("sleep", <<"groups">>, 0, 1),
                  Ev("get_groups", <<>>, 0, n)>>)
          /\ ngroups' = n
          /\ pc' = IF n > 0 /\ npolls < 1 THEN "remove_groups" ELSE "net_stop"
    /\ npolls' = npolls + 1
    /\ UNCHANGED <<params, topo, mcast_address_pool, error, current_run_number, net, hosts, switches, links,
                   topology_adapter, popens, client_iperfs, server_iperfs, procs,
                   trial, result>>
    /\ clock' = Slept(1)

\* Lines 666-670: one iteration of the group loop: remove all groups, sleep
\* a second, poll the groups left; the loop ends when none is left.
TdRemoveGroups ==
    /\ pc = "remove_groups"
    /\ ngroups > 0
    /\ npolls < MaxPolls
    /\ \E n \in GroupCounts :
          /\ Did(<<Ev("remove_all_groups", <<>>, 0, 0),
                  Ev("sleep", <<"groups">>, 0, 1),
                  Ev("get_groups", <<>>, 0, n)>>)
          /\ ngroups' = n
          /\ pc' = IF n > 0 THEN "remove_groups" ELSE "net_stop"
    /\ npolls' = npolls + 1
    /\ UNCHANGED <<params, topo, mcast_address_pool, error, current_run_number, net, hosts, switches, links,
                   topology_adapter, popens, client_iperfs, server_iperfs, procs,
                   trial, result>>
    /\ clock' = Slept(1)

\* TdNetStop without the try/except: the OSError of net.stop() propagates.
TdNetStop_Propagates ==
    /\ pc = "net_stop"
    /\ \E failed \in BOOLEAN :
          /\ Did(<<Ev("net.stop", <<>>, 0, IF failed THEN 1 ELSE 0)>>)
          /\ net' = [net EXCEPT !.state = IF failed THEN "stop_failed" ELSE "stopped"]
          /\ pc' = IF failed THEN "raised" ELSE "forced_cleanup"
          /\ error' = IF failed THEN "OSError" ELSE error
    /\ ngroups' = 0 /\ npolls' = 0
    /\ UNCHANGED <<params, topo, mcast_address_pool, clock, current_run_number, hosts, switches, links,
                   topology_adapter, popens, client_iperfs, server_iperfs, procs,
                   trial, result>>

\* Lines 673-677: stop the network; an OSError is logged and swallowed.
\* (The group loop is over: its locals are gone.)
TdNetStop ==
    /\ pc = "net_stop"
    /\ \E failed \in BOOLEAN :
          /\ Did(<<Ev("net.stop", <<>>, 0, IF failed THEN 1 ELSE 0)>>
                 \o (IF failed
                     THEN <<Ev("log.error", <<"Stopping Mininet failed">>, 0, 0)>>
                     ELSE <<>>))
          /\ net' = [net EXCEPT !.state = IF failed THEN "stop_failed" ELSE "stopped"]
    /\ pc' = "forced_cleanup"
    /\ ngroups' = 0 /\ npolls' = 0
    /\ UNCHANGED <<params, topo, mcast_address_pool, clock, error, current_run_number, hosts, switches, links,
                   topology_adapter, popens, client_iperfs, server_iperfs, procs,
                   trial, result>>

\* Lines 679-685: 'mn -c', then the settle sleep; teardown_experiment returns
\* (its locals are gone) and the run loop goes on to its next iteration.
TdSettle ==
    /\ pc = "forced_cleanup"
    /\ Did(<<Ev("mn -c", <<>>, 0, 0),
             Ev("sleep", <<"settle">>, 0, SLEEP_TIME_BETWEEN_RUNS)>>)
    /\ ngroups' = 0
    /\ npolls' = 0
   
    /\ pc' = "idle"
    /\ current_run_number' = current_run_number + 1
    /\ UNCHANGED <<params, topo, mcast_address_pool, error, net, hosts, switches, links, topology_adapter,
                   popens, client_iperfs, server_iperfs, procs, trial, result>>
    /\ clock' = Slept(SLEEP_TIME_BETWEEN_RUNS)

\* ------------------------------------------------------------ specification
Next ==
    \/ SetupTopology
    \/ ChooseTrial
    \/ StartNetwork
    \/ ConvergeAndProbe
    \/ SetupTopologyManager
    \/ SetupTrafficGenerators
    \/ SetupSeismicTest
    \/ PreEventSleep
    \/ ApplyFailures
    \/ ObservationSleep
    \/ TdReapServer
    \/ TdReapClients
    \/ TdReapIperfs
    \/ TdResetRosters
    \/ TdRemoveFlows
    \/ TdRemoveGroups
    \/ TdNetStop
    \/ TdSettle

Spec == Init /\ [][Next]_vars

\* setup_topology on its own, for the topologies of Topologies.
InitRealize ==
    /\ topo \in Topologies
    /\ clock = NoClock(0)
    /\ Constructed({DefaultParams})

SpecRealize == InitRealize /\ [][SetupTopology]_vars

\* The trials of the run loop for every tree count up to MaxTrees.
InitPool ==
    /\ topo = DefaultTopology
    /\ clock = NoClock(0)
    /\ Constructed({[DefaultParams EXCEPT !.ntrees = n] : n \in 0..MaxTrees})

SpecPool == InitPool /\ [][Next]_vars

\* The trials of the run loop on machines where a popen call takes up to
\* MaxPopenTime seconds.
InitTimed ==
    /\ topo = DefaultTopology
    /\ clock \in {NoClock(d) : d \in 0..MaxPopenTime}
    /\ Constructed({[DefaultParams EXCEPT !.n_traffic_generators = n] : n \in 0..MaxGen})

SpecTimed == InitTimed /\ [][Next]_vars

\* ------------------------------------------------------------ the phases
\* The phase of the trial state machine the orchestrator has completed,
\* read off its position in run_experiment and teardown_experiment.
Phase ==
    CASE pc \in {"idle", "choose", "start"} -> "IDLE"
      [] pc = "probe" -> "TOPOLOGY_UP"
      [] pc \in {"topology_manager", "traffic_generators", "seismic_test"} -> "CONTROL_PLANE_SYNCED"
      [] pc = "arm" -> "PARTICIPANTS_CONFIGURED"
      [] pc = "inject" -> "ARMED"
      [] pc = "observe" -> "FAILURE_INJECTED"
      [] pc \in {"reap_server", "reap_clients", "reap_iperfs", "reset_rosters"} -> "OBSERVING"
      [] pc \in {"remove_flows", "remove_groups", "net_stop"} -> "REAPING"
      [] pc = "forced_cleanup" -> "CLEANED_UP"
      [] OTHER -> "ABORTED"

PhaseOrder == <<"IDLE", "TOPOLOGY_UP", "CONTROL_PLANE_SYNCED", "PARTICIPANTS_CONFIGURED",
                "ARMED", "FAILURE_INJECTED", "OBSERVING", "REAPING", "CLEANED_UP">>

PhaseAfter(ph) ==
    LET i == CHOOSE j \in DOMAIN PhaseOrder : PhaseOrder[j] = ph IN
    PhaseOrder[(i % Len(PhaseOrder)) + 1]

\* Positions in calls of the calls named op.
At(op) == {i \in DOMAIN calls : calls[i].op = op}
\* Positions in calls of the calls named op on a process of the given role.
AtRole(op, role) == {i \in At(op) : calls[i].tgt[2] = role}
\* Positions in calls of the log message msg.
AtLog(msg) == {i \in DOMAIN calls : calls[i].tgt = <<msg>>}
AtSleep(what) == {i \in At("sleep") : calls[i].tgt = <<what>>}

FailureOps == {"configLinkStatus", "node.stop"}
AtFailure == {i \in DOMAIN calls : calls[i].op \in FailureOps}
AtInjection == AtLog("Applying failure model")
AtReap == At("wait") \cup At("kill")

\* ------------------------------------------------------------------ claims
\* C1: within a trial the phases are passed in the order IDLE, TOPOLOGY_UP,
\* CONTROL_PLANE_SYNCED, PARTICIPANTS_CONFIGURED, ARMED, FAILURE_INJECTED,
\* OBSERVING, REAPING, CLEANED_UP, IDLE: every change of phase goes to the
\* next phase of this order (or the trial ends with a fatal error), and the
\* orchestrator is back at the start of a trial only by the step that ends
\* with the settle sleep.
C1_PhaseOrder ==
    [][ /\ Phase' # Phase => Phase' \in {PhaseAfter(Phase), "ABORTED"}
        /\ Phase = "ABORTED" => Phase' = "ABORTED"
        /\ (pc' = "idle" /\ pc # "idle") =>
              /\ pc = "forced_cleanup"
              /\ last' # <<>>
              /\ last'[Len(last')] = Ev("sleep", <<"settle">>, 0, SLEEP_TIME_BETWEEN_RUNS)
      ]_vars

\* C1 witness: a second trial has run through to CLEANED_UP.
C1_Witness == current_run_number = 1 /\ Phase = "CLEANED_UP"

\* The participants of the trial: server, clients, generators.
ExpectedPopens ==
    1 + Cardinality(trial.publishers \cup trial.subscribers)
      + 2 * params.n_traffic_generators

\* C2: the failure set is applied only after the server, every sensor, every
\* subscriber and every traffic generator of the trial has been spawned, and
\* before the observation sleep ends, hence before any process is reaped.
C2_FailureAfterSpawnBeforeReap ==
    LET applied == AtInjection \cup AtFailure
        popen == At("popen")
        later == AtSleep("observe") \cup AtReap
    IN  /\ applied # {} =>
              /\ \A i \in applied, j \in popen : j < i
              /\ Cardinality(popen) = ExpectedPopens
              /\ Cardinality(AtRole("popen", "server")) = 1
              /\ {calls[j].tgt[1] : j \in AtRole("popen", "client")}
                    = trial.publishers \cup trial.subscribers
              /\ Cardinality(AtRole("popen", "iperf_client")) = params.n_traffic_generators
              /\ Cardinality(AtRole("popen", "iperf_server")) = params.n_traffic_generators
              /\ \A i \in applied, j \in later : i < j
        /\ \A j \in later : \E i \in AtInjection : i < j

\* C2 witness: a non-empty failure set has been applied in a trial with two
\* clients and a generator, and the processes are being reaped.
C2_Witness ==
    /\ AtFailure # {}
    /\ Cardinality(AtRole("popen", "client")) = 2
    /\ AtRole("popen", "iperf_client") # {}
    /\ AtRole("wait", "client") # {}

\* The calls of the given operation in calls, in order.
CallsOf(ops) == SelectSeq(calls, LAMBDA c : c.op \in ops)

\* C3: the failure set is applied exactly once per trial; in that application
\* every failed link is set down before any failed node is stopped, each
\* link and node of the failure set is acted on exactly once, and nothing
\* outside the failure set is taken down.
C3_FailureAppliedOnce ==
    /\ Cardinality(AtInjection) <= 1
    /\ AtFailure # {} => AtInjection # {}
    /\ pc \in {"observe", "reap_server", "reap_clients", "reap_iperfs", "reset_rosters",
               "remove_flows", "remove_groups", "net_stop", "forced_cleanup"}
         => /\ Cardinality(AtInjection) = 1
            /\ CallsOf({"configLinkStatus"})
                 = [i \in DOMAIN trial.failed_links |->
                      [op |-> "configLinkStatus", tgt |-> trial.failed_links[i], pid |-> 0]]
            /\ CallsOf({"node.stop"})
                 = [i \in DOMAIN trial.failed_nodes |->
                      [op |-> "node.stop", tgt |-> <<trial.failed_nodes[i]>>, pid |-> 0]]
            /\ \A i \in At("configLinkStatus"), j \in At("node.stop") : i < j
            /\ net.down = Range(trial.failed_links)
            /\ net.stopped = Range(trial.failed_nodes)

\* C3 witness: two links and two nodes have been failed.
C3_Witness ==
    /\ pc = "observe"
    /\ Cardinality(At("configLinkStatus")) = 2
    /\ Cardinality(At("node.stop")) = 2

\* Positions from which the roster of the trial is complete and not yet emptied.
RosterInUse == {"arm", "inject", "observe", "reap_server", "reap_clients",
                "reap_iperfs", "reset_rosters"}

\* C4: in every trial, once the participants are configured, popens holds
\* exactly one server handle, it is the first element, and it is the handle
\* of the current trial's server.
C4_OneServerFirst ==
    pc \in RosterInUse =>
        /\ popens # <<>>
        /\ popens[1].role = "server"
        /\ popens[1].run = current_run_number
        /\ Cardinality({i \in DOMAIN popens : popens[i].role = "server"}) = 1

\* C4 witness: the roster of a second trial, with two clients, about to be reaped.
C4_Witness == current_run_number = 1 /\ pc = "reap_server" /\ Len(popens) = 3

\* C5: in reaping, the server process is waited on and its exit code
\* classified before any client process is waited on.
C5_ServerReapedFirst ==
    /\ \A i \in AtRole("wait", "client") : \E j \in AtRole("wait", "server") : j < i
    /\ pc = "reap_clients" =>
          /\ AtRole("wait", "client") = {}
          /\ procs[popens[1].pid] = "exited"
          /\ \A i \in 2..Len(popens) : procs[popens[i].pid] = "running"
          /\ Len(last) >= 2
          /\ last[2].op = "wait" /\ last[2].tgt = <<"hs0", "server">>
          /\ last[2].pid = popens[1].pid
          /\ last[2].ret = 0 => Len(last) = 2
          /\ last[2].ret # 0 =>
                /\ Len(last) = 3
                /\ last[3].op = "log.error" /\ last[3].tgt[1] = "server"

\* C5 witness: the server of a roster with two clients has been waited on
\* and found to have failed; no client has been waited on yet.
C5_Witness ==
    /\ pc = "reap_clients"
    /\ Len(popens) = 3
    /\ last[2].ret = ENETUNREACH

TeardownStarted == AtLog("Experiment complete") # {}

\* C6: whatever the exit codes of server and clients, teardown does not
\* abort: every client handle is waited on, and teardown goes on to the
\* control-plane cleanup and the network stop.
C6_TeardownNeverAborts ==
    /\ TeardownStarted => (pc # "raised" /\ error = "None")
    /\ (TeardownStarted /\ pc \notin {"reap_server", "reap_clients"}) =>
          \A i \in AtRole("popen", "client") :
             \E j \in AtRole("wait", "client") : j > i /\ calls[j].pid = calls[i].pid
    /\ (TeardownStarted /\ pc \in {"forced_cleanup", "idle"}) =>
          /\ At("remove_all_flow_rules") # {}
          /\ \A i \in At("net.stop"), j \in AtRole("wait", "client") : j < i
          /\ Cardinality(At("net.stop")) = 1

\* C6 witness: both clients of a trial have exited with failure codes and
\* both have been waited on.
C6_Witness ==
    /\ pc = "reap_iperfs"
    /\ \E i, j \in DOMAIN last :
          /\ last[i].op = "wait" /\ last[i].ret = ENETUNREACH
          /\ last[j].op = "wait" /\ last[j].ret = 1

\* Whether the trial's result record is marked void.
VoidMarked == "void" \in DOMAIN result /\ result.void = TRUE

\* C7: the trial's outcome is marked void exactly when the server process
\* has exited with the no-reachable-subscribers code.
C7_VoidMarkedOnNoSubscribers ==
    pc = "reap_clients" =>
        (last[2].ret = EXIT_CODE_NO_SUBSCRIBERS <=> VoidMarked)

\* The log message expected after a client's wait that returned ret.
ExpectedClientLog(e) ==
    IF e.ret = 0 THEN <<>>
    ELSE IF e.ret = ENETUNREACH THEN <<Ev("log.error", <<"client", "net_unreachable">>, e.pid, e.ret)>>
    ELSE <<Ev("log.error", <<"client", "unexpected">>, e.pid, e.ret)>>

\* C8: a client exit code is classified as exactly one of success (0),
\* recognized network failure (ENETUNREACH) or unexpected failure (any other
\* non-zero code); a client's ENETUNREACH never marks the trial void nor
\* stops it.
C8_ClientClassification ==
    pc = "reap_iperfs" =>
        /\ \A i \in DOMAIN last :
              last[i].op = "wait" =>
                 LET exp == ExpectedClientLog(last[i]) IN
                 /\ exp = <<>> => (i = Len(last) \/ last[i + 1].op = "wait")
                 /\ exp # <<>> => (i < Len(last) /\ last[i + 1] = exp[1])
        /\ \A i \in DOMAIN last :
              last[i].op # "wait" => (i > 1 /\ last[i - 1].op = "wait" /\ last[i - 1].ret # 0)
        /\ \A i \in DOMAIN last : "no_subscribers" \notin Range(last[i].tgt)
        /\ ~VoidMarked
        /\ error = "None"

\* C8 witness: a client has exited with ENETUNREACH and another with 0.
C8_Witness ==
    /\ pc = "reap_iperfs"
    /\ \E i, j \in DOMAIN last :
          /\ last[i].op = "wait" /\ last[i].ret = ENETUNREACH
          /\ last[j].op = "wait" /\ last[j].ret = 0

\* A caller invokes teardown_experiment (line 614) a second time, right
\* after it has returned.
TeardownAgain ==
    /\ pc = "idle"
    /\ Cardinality(AtLog("Experiment complete")) = 1
    /\ pc' = "reap_server"
    /\ UNCHANGED <<params, topo, mcast_address_pool, clock, error, current_run_number, net, hosts, switches, links,
                   topology_adapter, popens, client_iperfs, server_iperfs, procs,
                   trial, ngroups, npolls, result, calls, last>>

NextTwice == Next \/ TeardownAgain

SpecTwice == Init /\ [][NextTwice]_vars

\* C9: teardown is idempotent: a second invocation right after the first
\* completes normally and has no side effect beyond logging.
C9_TeardownIdempotent ==
    \A i, j \in AtLog("Experiment complete") :
        i < j =>
           /\ error = "None"
           /\ \A k \in DOMAIN calls : k > j => calls[k].op \in {"log.info", "log.debug"}

\* Elements of the collection col realized in a trial that has finished.
Stale(col) == {i \in DOMAIN col : col[i].run < current_run_number}

\* C10: no trial-scoped state survives a trial: when teardown has completed
\* the rosters are empty and hosts, switches and links hold no element of a
\* finished trial.
C10_NoStateSurvives ==
    pc \in {"idle", "choose"} =>
        /\ popens = <<>> /\ client_iperfs = <<>> /\ server_iperfs = <<>>
        /\ Stale(hosts) = {} /\ Stale(switches) = {} /\ Stale(links) = {}

\* The control-plane cleanup calls made so far, in order.
CleanupCalls ==
    SelectSeq(calls, LAMBDA c : \/ c.op \in {"remove_all_flow_rules", "remove_all_groups", "get_groups"}
                                \/ (c.op = "sleep" /\ c.tgt = <<"groups">>))

\* The cleanup calls of a loop that has made k iterations.
CleanupCallsFor(k) ==
    [i \in 1..(1 + 3 * k) |->
        IF i = 1 THEN [op |-> "remove_all_flow_rules", tgt |-> <<>>, pid |-> 0]
        ELSE IF i % 3 = 2 THEN [op |-> "remove_all_groups", tgt |-> <<>>, pid |-> 0]
        ELSE IF i % 3 = 0 THEN [op |-> "sleep", tgt |-> <<"groups">>, pid |-> 0]
        ELSE [op |-> "get_groups", tgt |-> <<>>, pid |-> 0]]

\* C11: with an adapter, control-plane cleanup removes all flow rules exactly
\* once, then repeats (remove all groups, wait, poll the group count) and
\* stops exactly at the first poll that reports zero groups: a first zero at
\* poll k means exactly k remove-all-groups requests and k polls.
C11_GroupCleanupLoop ==
    /\ (topology_adapter # "None" /\ pc = "forced_cleanup") =>
          /\ At("get_groups") # {}
          /\ CleanupCalls = CleanupCallsFor(Cardinality(At("get_groups")))
          /\ \A i \in At("get_groups"), j \in At("net.stop") : i < j
    /\ (topology_adapter # "None" /\ pc \in {"remove_groups", "net_stop"}) =>
        /\ CleanupCalls = CleanupCallsFor(npolls)
        /\ Cardinality(At("remove_all_flow_rules")) = 1
        /\ Cardinality(At("remove_all_groups")) = npolls
        /\ Cardinality(At("get_groups")) = npolls
        /\ npolls > 0 => \E c \in Range(last) : c.op = "get_groups" /\ c.ret = ngroups
        /\ pc = "remove_groups" => ngroups > 0
        /\ pc = "net_stop" =>
              /\ npolls > 0
              /\ ngroups = 0
              /\ At("net.stop") = {}

\* C11 witness: the third poll is the first to report zero groups and the
\* loop has ended after three remove-all-groups requests.
C11_Witness ==
    /\ pc = "net_stop"
    /\ npolls = 3
    /\ ngroups = 0
    /\ Cardinality(At("remove_all_groups")) = 3

\* The run loop with the forced cleanup and the settle sleep of lines 681-685
\* taken to finish: 'mn -c' exits and time.sleep returns.
FairSpec == Spec /\ WF_vars(TdSettle)

\* net.stop() has raised OSError in the teardown that is under way.
StopFailed == net.state = "stop_failed" /\ pc = "forced_cleanup"
\* teardown_experiment has returned to the run loop without an exception.
TeardownReturned == pc = "idle" /\ error = "None" /\ net.run < current_run_number

C12_LoggedAndContinued ==
    net.state = "stop_failed" =>
        /\ error = "None"
        /\ pc \in {"forced_cleanup", "idle"}
        /\ pc = "forced_cleanup" =>
              last = <<Ev("net.stop", <<>>, 0, 1),
                       Ev("log.error", <<"Stopping Mininet failed">>, 0, 0)>>
        /\ pc = "idle" =>
              /\ Len(calls) >= 3
              /\ calls[Len(calls) - 2].op = "net.stop"
              /\ calls[Len(calls) - 1].op = "mn -c"
              /\ calls[Len(calls)] = [op |-> "sleep", tgt |-> <<"settle">>, pid |-> 0]

ConfigurationErrors == {"SystemExit", "AttributeError"}

\* C13: a configuration error (a host name that does not follow the naming
\* convention, an unrecognized adapter type) is raised before any resource
\* has been realized: when it is signalled there is no controller
\* attachment, switch, host or link, the network has not been started and no
\* process has been spawned.
C13_ConfigErrorBeforeRealization ==
    error \in ConfigurationErrors =>
        /\ net.controller = "None"
        /\ net.switches = {} /\ net.hosts = {} /\ net.links = {}
        /\ net.state \notin {"started"}
        /\ At("net.start") = {}
        /\ At("popen") = {}

\* C14: in every state, from construction through any number of trials,
\* the multicast address pool is the list 224.0.0.1, 224.0.0.2, ... of
\* exactly ntrees addresses: pairwise distinct, consecutive and increasing,
\* and changed by no operation of a trial.
C14_PoolFixed ==
    /\ Len(mcast_address_pool) = params.ntrees
    /\ \A i \in DOMAIN mcast_address_pool : mcast_address_pool[i] = <<224, 0, 0, i>>
    /\ \A i, j \in DOMAIN mcast_address_pool :
          i # j => mcast_address_pool[i] # mcast_address_pool[j]
    /\ \A i \in At("setHostRoute") : calls[i].tgt \in Range(mcast_address_pool)
    /\ At("ping") # {} => Cardinality(At("setHostRoute")) = params.ntrees

\* C14 witness: a pool of MaxTrees addresses at the end of the second trial.
C14_Witness ==
    /\ params.ntrees = MaxTrees
    /\ current_run_number = 1
    /\ pc = "forced_cleanup"
    /\ Cardinality(At("setHostRoute")) = MaxTrees

\* setup_topology has run to its end for the current trial.
Realized == pc = "choose" /\ net.state = "created"

\* The elements of collection col appended in the current trial.
OfThisTrial(col) == {i \in DOMAIN col : col[i].run = current_run_number}

C16_ServerAsSwitchAndHost ==
    Realized =>
        /\ Cardinality(net.switches) = Len(topo.switches) + 1
        /\ Cardinality(net.hosts \ {net.nat}) = Len(topo.hosts) + 1
        /\ net.switches \ Range(topo.switches) = {"s0"}
        /\ (net.hosts \ {net.nat}) \ Range(topo.hosts) = {"hs0"}
        /\ <<"s0", "hs0">> \in net.links
        /\ net.nat \in net.hosts

\* C16 witness: 2 switches and 3 hosts realized as 3 switches and 4 hosts.
C16_Witness ==
    /\ Realized
    /\ Len(topo.switches) = 2 /\ Len(topo.hosts) = 3
    /\ Cardinality(net.switches) = 3
    /\ Cardinality(net.hosts \ {net.nat}) = 4

\* The naming convention h<num>-<type><building>: the letter h, a number, a
\* dash, the type b or m, a number, and nothing else.  i is the position of
\* the dash.
DashOf(cs) ==
    {i \in 3..(Len(cs) - 2) :
        /\ cs[1] = "h"
        /\ \A k \in 2..(i - 1) : IsDigit(cs[k])
        /\ cs[i] = "-"
        /\ cs[i + 1] \in {"b", "m"}
        /\ \A k \in (i + 2)..Len(cs) : IsDigit(cs[k])}

FollowsConvention(cs) == DashOf(cs) # {}

\* The (num, type, building) of a name that follows the convention.
TripleOf(cs) ==
    LET i == CHOOSE j \in DashOf(cs) : TRUE
    IN  <<SubSeq(cs, 2, i - 1), cs[i + 1], SubSeq(cs, i + 2, Len(cs))>>

\* The address 10.131.<building>.<num> or 10.200.<building>.<num>.
AddressOf(triple) ==
    <<"1", "0", ".">>
    \o (IF triple[2] = "b" THEN <<"1", "3", "1">> ELSE <<"2", "0", "0">>)
    \o <<".">> \o triple[3] \o <<".">> \o triple[1]

\* C17: the address derived for a host named h<num>-<type><building> is
\* 10.131.<building>.<num> for type b and 10.200.<building>.<num> for type
\* m; hosts with distinct (num, type, building) get distinct addresses; and
\* a name that does not follow the convention yields an error and never an
\* address.
C17_HostAddresses ==
    net.state = "created" =>
        /\ \A h \in DOMAIN net.ip :
              /\ FollowsConvention(Chars[h])
              /\ net.ip[h] = AddressOf(TripleOf(Chars[h]))
        /\ \A g, h \in DOMAIN net.ip :
              (/\ FollowsConvention(Chars[g]) /\ FollowsConvention(Chars[h])
               /\ TripleOf(Chars[g]) # TripleOf(Chars[h]))
                 => net.ip[g] # net.ip[h]
        /\ (\E i \in DOMAIN topo.hosts : ~FollowsConvention(Chars[topo.hosts[i]]))
              => error = "AttributeError"
        /\ error = "None" => DOMAIN net.ip = Range(topo.hosts)

\* The nodes of the abstract topology.
TopologyNodes == Range(topo.switches) \cup Range(topo.hosts) \cup Range(topo.servers)

\* The link of the NAT node to the server (line 291).
NatLink == <<NatName, "hs0">>

\* C18: the NAT node and its link to the server are not in the abstract
\* topology the failure sets are drawn from, so in every state of a trial,
\* whatever failure set is applied, the NAT node is running and its link to
\* the server is up.
C18_GatewayNeverFailed ==
    net.state \in {"created", "started"} =>
        /\ net.nat = NatName /\ NatName \in net.nodes /\ NatLink \in net.links
        /\ NatName \notin TopologyNodes
        /\ \A i \in DOMAIN topo.links :
              NatName \notin Range(topo.links[i]) /\ "hs0" \notin Range(topo.links[i])
        /\ Range(trial.failed_nodes) \subseteq TopologyNodes
        /\ Range(trial.failed_links) \subseteq Range(topo.links)
        /\ \A i \in At("node.stop") : calls[i].tgt[1] \in TopologyNodes
        /\ \A i \in At("configLinkStatus") : calls[i].tgt \in Range(topo.links)
        /\ NatName \notin net.stopped
        /\ NatLink \notin net.down

\* C18 witness: two nodes and two links, one of them next to the server's
\* switch, have been failed and the NAT node and its link are untouched.
C18_Witness ==
    /\ pc = "observe"
    /\ Cardinality(net.stopped) = 2
    /\ Cardinality(net.down) = 2
    /\ NatName \notin net.stopped /\ NatLink \notin net.down

\* The nominal event instant of the process of handle h: its own start time
\* plus the --delay it is started with (lines 492, 591).
EventInstant(h) == clock.started[h.pid] + SEISMIC_EVENT_DELAY

\* C19: the failure set is applied when (event delay - 1) has elapsed since
\* the configuration of the participants began, and so before the nominal
\* event instant of every client process spawned in the trial, however long
\* spawning the participants takes.
C19_FailureBeforeEvent ==
    pc = "observe" =>
        /\ clock.now = clock.configuring_since + (SEISMIC_EVENT_DELAY - 1)
        /\ \A i \in DOMAIN popens :
              popens[i].role = "client" => clock.now < EventInstant(popens[i])

\* Positions in last of the calls named op.
LastAt(op) == {i \in DOMAIN last : last[i].op = op}

\* C20: a loss reported by the ping among all hosts but the NAT never ends
\* the trial: it is logged as a warning and the trial goes on to the static
\* ARP step, which always comes after the ping and before the adapter is
\* instantiated and any participant is spawned.
C20_ProbeLossTolerated ==
    /\ pc = "topology_manager" => LastAt("ping") # {}
    /\ LastAt("ping") # {} =>
          /\ pc = "topology_manager"
          /\ error = "None"
          /\ Cardinality(LastAt("ping")) = 1
          /\ \A k \in LastAt("ping") :
                /\ Range(last[k].tgt) = net.hosts \ {NatName}
                /\ last[k].ret = 0 => (Len(last) = k + 1 /\ last[k + 1].op = "staticArp")
                /\ last[k].ret > 0 =>
                      /\ Len(last) = k + 2
                      /\ last[k + 1] = Ev("log.warning", <<"ping loss">>, 0, last[k].ret)
                      /\ last[k + 2].op = "staticArp"
    /\ \A i \in At("ping") : NatName \notin Range(calls[i].tgt)
    /\ \A i \in At("ping"), j \in At("staticArp") : i < j
    /\ \A j \in At("SdnTopologyAdapter") \cup At("popen") :
          /\ Cardinality(At("ping")) = 1
          /\ Cardinality(At("staticArp")) = 1
          /\ \A i \in At("staticArp") : i < j

\* C20 witness: the ping reported a loss and run_experiment is about to
\* instantiate the adapter.
C20_Witness ==
    /\ pc = "topology_manager"
    /\ \E k \in LastAt("ping") : last[k].ret = 50
    /\ At("staticArp") # {}

\* The handles of the three rosters, popens first.
RosterHandles == popens \o client_iperfs \o server_iperfs

\* The handles of roster for processes of the given role on the given node.
HandlesFor(roster, role, node) ==
    {i \in DOMAIN roster : roster[i].role = role /\ roster[i].node = node}

\* The states in which the participants are configured and none is reaped yet.
Configured == pc \in {"arm", "inject", "observe", "reap_server"}

\* C21: participant configuration spawns exactly one process per participant
\* and records it in a roster: one server process, one client process on the
\* node of every sensor and of every subscriber (one also for a node that is
\* both), one iperf client on the node of every traffic generator (with its
\* listener on the server host); every popen call of the trial has its handle
\* in exactly one roster and the process runs.
C21_OneProcessPerParticipant ==
    Configured =>
        /\ Cardinality(HandlesFor(popens, "server", ServerHostName(TopoServers[1]))) = 1
        /\ Len(HandlesOf(popens, "server")) = 1
        /\ \A h \in trial.publishers \cup trial.subscribers :
              Cardinality(HandlesFor(popens, "client", h)) = 1
        /\ Len(HandlesOf(popens, "client")) = Cardinality(trial.publishers \cup trial.subscribers)
        /\ Len(client_iperfs) = params.n_traffic_generators
        /\ \A i \in DOMAIN client_iperfs :
              /\ client_iperfs[i].role = "iperf_client"
              /\ client_iperfs[i].node \in Range(TopoHosts)
              /\ Cardinality(HandlesFor(client_iperfs, "iperf_client", client_iperfs[i].node)) = 1
        /\ Len(server_iperfs) = params.n_traffic_generators
        /\ \A i \in DOMAIN server_iperfs :
              /\ server_iperfs[i].role = "iperf_server"
              /\ server_iperfs[i].node = ServerHostName(TopoServers[1])
        /\ \A i \in At("popen") :
              /\ Cardinality({j \in DOMAIN RosterHandles : RosterHandles[j].pid = calls[i].pid}) = 1
              /\ calls[i].pid \in DOMAIN procs
              /\ procs[calls[i].pid] = "running"
        /\ \A j \in DOMAIN RosterHandles :
              Cardinality({i \in At("popen") : calls[i].pid = RosterHandles[j].pid
                                                /\ calls[i].tgt = <<RosterHandles[j].node, RosterHandles[j].role>>}) = 1

\* C21 witness: a node that is both sensor and subscriber, and a traffic
\* generator: one server process, one client process, one iperf client.
C21_Witness ==
    /\ pc = "arm"
    /\ trial.publishers = {"h1-b0"} /\ trial.subscribers = {"h1-b0"}
    /\ params.n_traffic_generators = 1
    /\ Len(popens) = 2 /\ Len(client_iperfs) = 1
    /\ Cardinality(At("popen")) = 4

\* The states of teardown after the reaping step (lines 619-646).
Reaped == {"reset_rosters", "remove_flows", "remove_groups", "net_stop", "forced_cleanup"}

\* The states of a trial before its first process is spawned.
BeforeSpawning == {"idle", "choose", "start", "probe", "topology_manager", "traffic_generators"}

InitListeners ==
    /\ topo = DefaultTopology
    /\ clock = NoClock(0)
    /\ Constructed({[DefaultParams EXCEPT !.n_traffic_generators = n] : n \in 1..MaxListeners})

SpecListeners == InitListeners /\ [][Next]_vars

\* Positions in calls of the calls named op for process pid.
AtPid(op, pid) == {i \in At(op) : calls[i].pid = pid}

\* The listeners whose kill raised: killed, never waited on.
KillRaised == {calls[i].pid : i \in {j \in AtRole("kill", "iperf_server") : AtPid("wait", calls[j].pid) = {}}}

\* C23: killing the iperf listeners is best-effort: when the kill of a
\* listener that has already exited raises OSError the error is swallowed,
\* every listener of the roster is still killed exactly once, in roster
\* order, each one whose kill succeeded is waited on right after its kill, and
\* teardown goes on to the roster reset, the control-plane cleanup and the
\* network stop without raising.
C23_ListenerKillBestEffort ==
    /\ pc = "reset_rosters" =>
          /\ \A i \in DOMAIN server_iperfs :
                Cardinality(AtPid("kill", server_iperfs[i].pid)) = 1
          /\ \A i, j \in DOMAIN server_iperfs :
                i < j => \A a \in AtPid("kill", server_iperfs[i].pid),
                            b \in AtPid("kill", server_iperfs[j].pid) : a < b
          /\ \A k \in DOMAIN last :
                last[k].op = "kill" =>
                    IF last[k].ret = 0
                    THEN /\ k < Len(last)
                         /\ last[k + 1].op = "wait"
                         /\ last[k + 1].pid = last[k].pid
                    ELSE k = Len(last) \/ last[k + 1].op = "kill"
    /\ pc \in Reaped \cup {"idle"} =>
          \A i \in AtRole("popen", "iperf_server") :
              Cardinality(AtPid("kill", calls[i].pid)) = 1
    /\ KillRaised # {} =>
          /\ pc \in Reaped \cup {"idle"}
          /\ error = "None"
          /\ pc = "forced_cleanup" => At("net.stop") # {}

\* C23 witness: the kill of the first of two listeners raised, the second
\* listener was killed and waited on, and the network has been stopped.
C23_Witness ==
    /\ pc = "forced_cleanup"
    /\ Cardinality(AtRole("popen", "iperf_server")) = 2
    /\ Cardinality(KillRaised) = 1
    /\ \E i \in AtRole("kill", "iperf_server"), j \in AtRole("kill", "iperf_server") :
          /\ i < j
          /\ calls[i].pid \in KillRaised
          /\ AtPid("wait", calls[j].pid) # {}
    /\ At("log.debug") # {}
    /\ At("remove_all_groups") # {}
    /\ At("net.stop") # {}

\* The nodes the orchestrator derives a control-plane identifier for in a
\* trial: the server host, every sensor and subscriber (lines 556-565), and
\* with the unicast comparison every node of every static route (line 538).
ReferencedNodes ==
    {ServerHostName(TopoServers[1])} \cup trial.publishers \cup trial.subscribers
    \cup (IF params.comparison = "unicast"
          THEN UNION {Range(StaticRouteNodes(sub)) : sub \in trial.subscribers}
          ELSE {})

\* setup_seismic_test has run, to its end or to the raise of line 548.
SeismicTestDone ==
    \/ pc \in {"arm", "inject", "observe"}
    \/ pc = "raised" /\ \E e \in Range(last) : e.op = "log.error" /\ e.tgt = <<"static route">>

\* C24: with an accepted adapter type, identifier derivation returns for
\* every node the orchestrator references (every participant host, every
\* switch or host of a static route) one identifier of the adapter's scheme
\* (hardware address for onos, IP address for floodlight) and never an
\* error, and setup_seismic_test does not raise.
C24_IdentifierDerivation ==
    (SeismicTestDone /\ params.topology_adapter_type \in {"onos", "floodlight"}) =>
        /\ pc # "raised"
        /\ \A n \in ReferencedNodes :
              LET d == GetNodeDpid(params.topology_adapter_type, n) IN
              /\ d.error = "None"
              /\ d.scheme \in (IF params.topology_adapter_type = "onos"
                                THEN {"mac/None", "of:dpid"} ELSE {"ip"})

\* The interfaces node n has in network nw.
IntfsAt(nw, n) == {x \in nw.intfs : x[1] = n}

\* C25 (state part): a stopped node keeps the interfaces its links gave it.
C25_StoppedKeepIntfs ==
    \A n \in net.stopped : IntfsAt(net, n) = {x \in IntfsOf(net.links) : x[1] = n}

\* C25 (step part): while the network is up, no step but the network stop
\* brings a failed link back up, restarts a stopped node, removes an
\* interface or ends the network.
C25_NoUndo ==
    (net.state = "started" /\ pc # "net_stop") =>
        /\ net'.state = "started"
        /\ net.down \subseteq net'.down
        /\ net.stopped \subseteq net'.stopped
        /\ net'.intfs = net.intfs
        /\ net'.links = net.links

\* C25: failure state is monotonic within a trial: once applied, the failure
\* set stays applied until the network is stopped, and stopped nodes keep
\* their interfaces.
C25_FailureMonotonic == []C25_StoppedKeepIntfs /\ [][C25_NoUndo]_vars

\* C25 witness: two links are down and two nodes stopped, with their
\* interfaces, when teardown has reaped the processes and cleaned the
\* control plane and is about to stop the network.
C25_Witness ==
    /\ pc = "net_stop"
    /\ net.state = "started"
    /\ net.down = Range(trial.failed_links) /\ Cardinality(net.down) = 2
    /\ net.stopped = Range(trial.failed_nodes) /\ Cardinality(net.stopped) = 2
    /\ \A n \in net.stopped : IntfsAt(net, n) # {}
    /\ At("remove_all_groups") # {}

\* C26 (state part): inside the loop the last poll reported a group, the
\* network is not stopped, and another iteration can be made, however many
\* were made before; with an adapter the network stop is reached only after
\* a poll that reported zero.
C26_LoopOnlyLeftAtZero ==
    /\ pc = "remove_groups" =>
          /\ ngroups > 0
          /\ At("net.stop") = {} /\ AtSleep("settle") = {}
          /\ Cardinality(At("remove_all_groups")) = npolls
          /\ npolls < MaxPolls => ENABLED TdRemoveGroups
    /\ (pc = "net_stop" /\ topology_adapter # "None") => (npolls > 0 /\ ngroups = 0)

\* C26 (step part): a step from inside the loop is one more iteration (one
\* more remove_all_groups and one more poll); it leaves the loop exactly when
\* its poll reports zero.
C26_IterationStep ==
    pc = "remove_groups" =>
        /\ npolls' = npolls + 1
        /\ Len(SelectSeq(calls', LAMBDA c : c.op = "remove_all_groups")) = npolls + 1
        /\ \E e \in Range(last') : e.op = "get_groups" /\ e.ret = ngroups'
        /\ pc' = IF ngroups' = 0 THEN "net_stop" ELSE "remove_groups"

\* C26: the group loop has no iteration cap: cleanup ends if and only if a
\* poll reports zero groups; as long as every poll reports a group teardown
\* goes on removing groups and reaches neither the network stop nor the
\* settle sleep nor the next trial.
C26_NoIterationCap == []C26_LoopOnlyLeftAtZero /\ [][C26_IterationStep]_vars

\* C26 witness: every one of MaxPolls polls reported a group and teardown is
\* still in the loop.
C26_Witness ==
    /\ pc = "remove_groups"
    /\ npolls = MaxPolls
    /\ ngroups > 0
    /\ Cardinality(At("remove_all_groups")) = MaxPolls
    /\ At("net.stop") = {}

\* The calls made to the control-plane adapter so far.
AdapterCalls ==
    {i \in DOMAIN calls : calls[i].op \in {"remove_all_flow_rules", "remove_all_groups", "get_groups"}}

InRosters(pid) == {j \in DOMAIN RosterHandles : RosterHandles[j].pid = pid}

\* C28: every process spawned for a trial is appended to exactly one roster
\* in the step that spawns it: in every state, also after participant setup
\* has aborted (static route, server address assertion), every process that
\* runs and every spawned process not yet waited for or killed has exactly
\* one handle in the rosters, and no process has two.
C28_SpawnedAreRostered ==
    /\ \A p \in DOMAIN procs : procs[p] = "running" => Cardinality(InRosters(p)) = 1
    /\ \A i \in At("popen") :
          AtPid("wait", calls[i].pid) \cup AtPid("kill", calls[i].pid) = {}
              => Cardinality(InRosters(calls[i].pid)) = 1
    /\ \A i, j \in DOMAIN RosterHandles : RosterHandles[i].pid = RosterHandles[j].pid => i = j

\* C28 witness: the server address assertion has failed after the traffic
\* generators and the server were started: the three processes run and each
\* is in its roster.
C28_Witness ==
    /\ pc = "raised"
    /\ error = "AssertionError"
    /\ Len(popens) = 1 /\ Len(client_iperfs) = 1 /\ Len(server_iperfs) = 1
    /\ \A j \in DOMAIN RosterHandles :
          /\ RosterHandles[j].pid \in DOMAIN procs
          /\ procs[RosterHandles[j].pid] = "running"
    /\ Cardinality(At("popen")) = 3

====
